---------------------------- MODULE Spec2Model ----------------------------
(***************************************************************************)
(* A model of the record / collection framework of BaseClasses.py          *)
(* (EntryBase, BookBase) and of the record shapes of MainClasses.py.       *)
(*                                                                         *)
(* Objects live on a heap: books, entry lists and records are sequences    *)
(* indexed by object identity, so that sharing and copying are visible.    *)
(* A record is its class and its instance __dict__; a class is one level   *)
(* of a single-inheritance chain whose level 1 is EntryBase.               *)
(***************************************************************************)
EXTENDS Integers, Sequences, FiniteSets, TLC

VARIABLES
    classes,   \* the chain of record classes, most general (EntryBase) first
    books,     \* heap of BookBase instances: [cls, attributes, entries]
    lists,     \* heap of entry lists: sequences of record identities
    recs,      \* heap of EntryBase instances: [cls, d], d the __dict__
    result,    \* the last call and its outcome
    dels       \* how many attribute deletions have run

vars == <<classes, books, lists, recs, result, dels>>

-----------------------------------------------------------------------------
(* Bounds of the model: records on the heap, books, criteria of one find,   *)
(* attribute deletions, classes below EntryBase in a drawn chain, records   *)
(* of a displayed book.                                                     *)

MaxRecs == 2
MaxBooks == 2
MaxLevels == 3
MaxCriteria == 2
MaxDels == 1
MaxShown == 10

\* Attribute values: the code only stores them and compares them for
\* equality, so two values that differ stand for all; 0 and 1 are also
\* Python's False and True.
Values == {0, 1}

-----------------------------------------------------------------------------
(* Sequence helpers *)

Elems(s) == {s[i] : i \in DOMAIN s}

Reverse(s) == [i \in 1..Len(s) |-> s[Len(s) + 1 - i]]

Min(a, b) == IF a <= b THEN a ELSE b

\* the number of decimal digits of n >= 0
RECURSIVE Digits(_)
Digits(n) == IF n < 10 THEN 1 ELSE 1 + Digits(n \div 10)

\* str(n) for n >= 0, as the sequence of its decimal digits
RECURSIVE DigitsOf(_)
DigitsOf(n) == IF n < 10 THEN <<n>> ELSE Append(DigitsOf(n \div 10), n % 10)

\* the format specification 0w applied to i >= 0: the digits of i, with zeros
\* in front up to w characters; more digits than w are all kept
ZeroPad(i, w) == [k \in 1..(w - Len(DigitsOf(i))) |-> 0] \o DigitsOf(i)

-----------------------------------------------------------------------------
(* Classes.  A class is [name, declares, attributes]: declares says        *)
(* whether the class body assigns `attributes`; class k's parent is class  *)
(* k-1, class 1 is EntryBase and 0 stands for `object`.                    *)

EntryBaseClass == [name |-> "EntryBase", declares |-> TRUE, attributes |-> <<>>]

MainClasses ==
    << EntryBaseClass,
       [name |-> "PhoneEntry", declares |-> TRUE, attributes |-> <<"name", "phone">>],
       [name |-> "PhoneEntryExt", declares |-> TRUE, attributes |-> <<"email">>],
       [name |-> "PhoneEntryExt2", declares |-> TRUE, attributes |-> <<"age">> ] >>

\* inspect.getmro(cls): the class, its ancestors, then object
Mro(c) == [k \in 1..(c + 1) |-> c + 1 - k]

\* hasattr(base, 'attributes'): found on the class or inherited; object has none
HasAttributes(cs, c) == c # 0

\* base.attributes read on a class: the nearest declaring class's own tuple
RECURSIVE ClassAttributes(_, _)
ClassAttributes(cs, c) ==
    IF cs[c].declares THEN cs[c].attributes ELSE ClassAttributes(cs, c - 1)

GetParentHierarchyNoReverse(cs, c) ==
    SelectSeq(Mro(c), LAMBDA b : HasAttributes(cs, b))

GetParentHierarchy(cs, c) ==
    Reverse(SelectSeq(Mro(c), LAMBDA b : HasAttributes(cs, b)))

\* sum((base.attributes for base in base_classes), start=())
RECURSIVE SumAttributes(_, _)
SumAttributes(cs, bases) ==
    IF bases = <<>> THEN <<>>
    ELSE ClassAttributes(cs, Head(bases)) \o SumAttributes(cs, Tail(bases))

GetAllAttributes(cs, c) == SumAttributes(cs, GetParentHierarchy(cs, c))

-----------------------------------------------------------------------------
(* Records (EntryBase).  A record is [cls, d]: its class and its instance  *)
(* __dict__, a function from attribute names to values.  Python's False is *)
(* the integer 0 and True the integer 1; a value is truthy when it is not  *)
(* 0.  An outcome carries err, "none" when the call returned.              *)

EmptyDict == [n \in {} |-> 0]

DictSet(d, k, v) == [n \in (DOMAIN d) \cup {k} |-> IF n = k THEN v ELSE d[n]]

\* dict.update(other): the keys of other win
DictUpdate(d, other) ==
    [n \in (DOMAIN d) \cup (DOMAIN other) |-> IF n \in DOMAIN other THEN other[n] ELSE d[n]]

\* self._can_set_any_attr: the instance attribute, else the class attribute (True)
CanSetAnyAttr(r) ==
    IF "_can_set_any_attr" \in DOMAIN r.d THEN r.d["_can_set_any_attr"] # 0 ELSE TRUE

\* self.attributes: the instance attribute, else the class attribute
Attributes(cs, r) ==
    IF "attributes" \in DOMAIN r.d THEN r.d["attributes"] ELSE ClassAttributes(cs, r.cls)

\* A faulty variant of __setattr__: the lock is not consulted.
EntrySetAttrUnguarded(cs, r, name, value) ==
    [err |-> "none", rec |-> [r EXCEPT !.d = DictSet(r.d, name, value)]]

\* EntryBase.__setattr__
EntrySetAttr(cs, r, name, value) ==
    IF CanSetAnyAttr(r) \/ name \in Elems(Attributes(cs, r))
    THEN [err |-> "none", rec |-> [r EXCEPT !.d = DictSet(r.d, name, value)]]
    ELSE [err |-> "ForbiddenAttributeSet", rec |-> r]

\* del entry.<name>: EntryBase defines no __delattr__, so object's runs: the
\* name leaves the instance __dict__, whatever the lock says
EntryDelAttr(r, name) ==
    IF name \in DOMAIN r.d
    THEN [err |-> "none", rec |-> [r EXCEPT !.d = [n \in (DOMAIN r.d) \ {name} |-> r.d[n]]]]
    ELSE [err |-> "AttributeError", rec |-> r]

\* EntryBase.__new__: both assignments go through __setattr__
EntryNew(cs, c) ==
    LET r0 == [cls |-> c, d |-> EmptyDict]
        r1 == EntrySetAttr(cs, r0, "attributes", GetAllAttributes(cs, c)).rec
    IN  EntrySetAttr(cs, r1, "_can_set_any_attr", 0).rec

\* A faulty variant of the zip: the positional values are paired with the schema
\* names taken from the last one backwards.
ZipDictFromEnd(attrs, args) ==
    LET m == Min(Len(attrs), Len(args))
    IN  [n \in {attrs[Len(attrs) + 1 - i] : i \in 1..m} |->
            args[CHOOSE i \in 1..m : attrs[Len(attrs) + 1 - i] = n]]

\* dict(zip(self.attributes, args)): pairs up to the shorter length, a
\* repeated key keeps its last value
ZipDict(attrs, args) ==
    LET m == Min(Len(attrs), Len(args))
        last(n) == CHOOSE i \in 1..m : attrs[i] = n /\ \A j \in (i + 1)..m : attrs[j] # n
    IN  [n \in {attrs[i] : i \in 1..m} |-> args[last(n)]]

\* A faulty variant of __init__: the repeated-assignment check is left out.
EntryInitNoDuplicateCheck(cs, r, args, kwargs) ==
    LET attrs == Attributes(cs, r)
        dict_args == ZipDict(attrs, args)
        merged == DictUpdate(kwargs, dict_args)
        missing_args == Elems(attrs) \ DOMAIN merged
        unexpected_args == (DOMAIN merged) \ Elems(attrs)
        fail(e, ns) == [err |-> e, names |-> ns, rec |-> r]
    IN  IF Len(args) > Len(attrs) THEN fail("TooManyArguments", {})
        ELSE IF Elems(attrs) # DOMAIN merged
        THEN IF missing_args # {} THEN fail("MissingAttributes", missing_args)
             ELSE IF unexpected_args # {} THEN fail("UnexpectedAttributes", unexpected_args)
             ELSE fail("UnexpectedError", {})
        ELSE [err |-> "none", names |-> {}, rec |-> [r EXCEPT !.d = DictUpdate(r.d, merged)]]

\* A faulty variant of __init__: the repeated-assignment error names every
\* positionally bound name.
EntryInitNamesAllPositional(cs, r, args, kwargs) ==
    LET attrs == Attributes(cs, r)
        dict_args == ZipDict(attrs, args)
        common_args == (DOMAIN dict_args) \cap (DOMAIN kwargs)
        merged == DictUpdate(kwargs, dict_args)
        missing_args == Elems(attrs) \ DOMAIN merged
        unexpected_args == (DOMAIN merged) \ Elems(attrs)
        fail(e, ns) == [err |-> e, names |-> ns, rec |-> r]
    IN  IF Len(args) > Len(attrs) THEN fail("TooManyArguments", {})
        ELSE IF common_args # {} THEN fail("DuplicateArgument", DOMAIN dict_args)
        ELSE IF Elems(attrs) # DOMAIN merged
        THEN IF missing_args # {} THEN fail("MissingAttributes", missing_args)
             ELSE IF unexpected_args # {} THEN fail("UnexpectedAttributes", unexpected_args)
             ELSE fail("UnexpectedError", {})
        ELSE [err |-> "none", names |-> {}, rec |-> [r EXCEPT !.d = DictUpdate(r.d, merged)]]

\* A faulty variant of __init__: the unexpected-arguments error lists every
\* supplied name.
EntryInitListsAllSupplied(cs, r, args, kwargs) ==
    LET attrs == Attributes(cs, r)
        dict_args == ZipDict(attrs, args)
        common_args == (DOMAIN dict_args) \cap (DOMAIN kwargs)
        merged == DictUpdate(kwargs, dict_args)
        missing_args == Elems(attrs) \ DOMAIN merged
        unexpected_args == (DOMAIN merged) \ Elems(attrs)
        fail(e, ns) == [err |-> e, names |-> ns, rec |-> r]
    IN  IF Len(args) > Len(attrs) THEN fail("TooManyArguments", {})
        ELSE IF common_args # {} THEN fail("DuplicateArgument", common_args)
        ELSE IF Elems(attrs) # DOMAIN merged
        THEN IF missing_args # {} THEN fail("MissingAttributes", missing_args)
             ELSE IF unexpected_args # {} THEN fail("UnexpectedAttributes", DOMAIN merged)
             ELSE fail("UnexpectedError", {})
        ELSE [err |-> "none", names |-> {}, rec |-> [r EXCEPT !.d = DictUpdate(r.d, merged)]]

\* EntryBase.__init__: args a sequence of values, kwargs a function from names
\* to values.  The four TypeErrors are told apart by their message.
EntryInit(cs, r, args, kwargs) ==
    LET attrs == Attributes(cs, r)
        dict_args == ZipDict(attrs, args)
        common_args == (DOMAIN dict_args) \cap (DOMAIN kwargs)
        merged == DictUpdate(kwargs, dict_args)
        missing_args == Elems(attrs) \ DOMAIN merged
        unexpected_args == (DOMAIN merged) \ Elems(attrs)
        fail(e, ns) == [err |-> e, names |-> ns, rec |-> r]
    IN  IF Len(args) > Len(attrs) THEN fail("TooManyArguments", {})
        ELSE IF common_args # {} THEN fail("DuplicateArgument", common_args)
        ELSE IF Elems(attrs) # DOMAIN merged
        THEN IF missing_args # {} THEN fail("MissingAttributes", missing_args)
             ELSE IF unexpected_args # {} THEN fail("UnexpectedAttributes", unexpected_args)
             ELSE fail("UnexpectedError", {})
        ELSE [err |-> "none", names |-> {}, rec |-> [r EXCEPT !.d = DictUpdate(r.d, merged)]]

\* calling ENTRY_TYPE with args and kwargs: __new__, then __init__ on the new instance
EntryCreate(cs, c, args, kwargs) == EntryInit(cs, EntryNew(cs, c), args, kwargs)

\* A faulty variant of __getitem__: the key is not checked against the schema.
EntryGetItemAnyName(cs, r, key) ==
    IF key \in DOMAIN r.d
    THEN [err |-> "none", value |-> r.d[key]]
    ELSE [err |-> "UnknownAttribute", value |-> 0]

\* EntryBase.__getitem__; __getattribute__ raises AttributeError as well when
\* the name is in the schema and the instance holds no such attribute
EntryGetItem(cs, r, key) ==
    IF key \in Elems(Attributes(cs, r)) /\ key \in DOMAIN r.d
    THEN [err |-> "none", value |-> r.d[key]]
    ELSE [err |-> "UnknownAttribute", value |-> 0]

\* EntryBase.__str__: one (attribute, value) line per schema attribute
EntryStr(cs, r) ==
    LET attrs == Attributes(cs, r)
    IN  IF \E i \in DOMAIN attrs : EntryGetItem(cs, r, attrs[i]).err # "none"
        THEN [err |-> "UnknownAttribute", lines |-> <<>>]
        ELSE [err |-> "none",
              lines |-> [i \in DOMAIN attrs |->
                            [attr |-> attrs[i], value |-> EntryGetItem(cs, r, attrs[i]).value]]]

-----------------------------------------------------------------------------
(* Books (BookBase).  A book is [cls, attributes, entries]: cls is its     *)
(* ENTRY_TYPE, entries the identity of its entry list.  The operators take *)
(* the heaps they read: bs books, ls lists, rs records.                    *)

\* BookBase.__new__ and __init__, the entry list being list l
BookNew(cs, c, l) == [cls |-> c, attributes |-> GetAllAttributes(cs, c), entries |-> l]

\* the inner loop of find over one entry: the criteria in keyword order,
\* stopping at the first mismatch; a failed lookup propagates
RECURSIVE EntryMatches(_, _, _)
EntryMatches(cs, r, criteria) ==
    IF criteria = <<>> THEN [err |-> "none", found |-> TRUE]
    ELSE LET got == EntryGetItem(cs, r, Head(criteria)[1])
         IN  IF got.err # "none" THEN [err |-> got.err, found |-> FALSE]
             ELSE IF got.value # Head(criteria)[2] THEN [err |-> "none", found |-> FALSE]
             ELSE EntryMatches(cs, r, Tail(criteria))

\* the outer loop of find over the entries ids, in order
RECURSIVE FindLoop(_, _, _, _)
FindLoop(cs, rs, ids, criteria) ==
    IF ids = <<>> THEN [err |-> "none", matches |-> <<>>]
    ELSE LET m == EntryMatches(cs, rs[Head(ids)], criteria)
             rest == FindLoop(cs, rs, Tail(ids), criteria)
         IN  IF m.err # "none" THEN [err |-> m.err, matches |-> <<>>]
             ELSE IF rest.err # "none" THEN rest
             ELSE [err |-> "none",
                   matches |-> (IF m.found THEN <<Head(ids)>> ELSE <<>>) \o rest.matches]

\* A faulty variant of find: a criterion that does not match ends the search of the
\* entry with the entry kept (found is never cleared).
BookFindAnyCriterion(cs, ls, rs, book, criteria) ==
    IF \E i \in DOMAIN ls[book.entries] :
          EntryMatches(cs, rs[ls[book.entries][i]], criteria).err # "none"
    THEN [err |-> "UnknownAttribute", matches |-> <<>>]
    ELSE [err |-> "none", matches |-> ls[book.entries]]

\* A faulty variant of find: the matches are duplicates of the stored entries, objects
\* of their own.
BookFindDuplicates(cs, ls, rs, book, criteria) ==
    LET out == FindLoop(cs, rs, ls[book.entries], criteria)
    IN  [err |-> out.err, matches |-> [i \in DOMAIN out.matches |-> Len(rs) + i]]

\* BookBase.find
BookFind(cs, ls, rs, book, criteria) == FindLoop(cs, rs, ls[book.entries], criteria)

\* A faulty variant of __getitem__: positions are taken from the end only when in range
\* and every other position is clamped to the last entry.
BookGetItemClamped(ls, book, key) ==
    LET entries == ls[book.entries]
        n == Len(entries)
    IN  IF 0 <= key /\ key < n THEN [err |-> "none", rec |-> entries[key + 1]]
        ELSE IF -n <= key /\ key < 0 THEN [err |-> "none", rec |-> entries[n + key + 1]]
        ELSE IF n > 0 THEN [err |-> "none", rec |-> entries[n]]
        ELSE [err |-> "IndexOutOfRange", rec |-> 0]

\* BookBase.__getitem__ with an integer key: list indexing, a negative key
\* counts from the end, anything else raises IndexError
BookGetItem(ls, book, key) ==
    LET entries == ls[book.entries]
        n == Len(entries)
    IN  IF 0 <= key /\ key < n THEN [err |-> "none", rec |-> entries[key + 1]]
        ELSE IF -n <= key /\ key < 0 THEN [err |-> "none", rec |-> entries[n + key + 1]]
        ELSE [err |-> "IndexOutOfRange", rec |-> 0]

\* A faulty variant of the record copy: the instance is made without __new__ and the
\* lock flag is not carried over.
CopyEntryUnlocked(cs, r) ==
    [cls |-> r.cls, d |-> [n \in (DOMAIN r.d) \ {"_can_set_any_attr"} |-> r.d[n]]]

\* copy.deepcopy of one record: cls.__new__(cls), then the copied state is
\* written into the new instance's __dict__
CopyEntry(cs, r) == [cls |-> r.cls, d |-> DictUpdate(EntryNew(cs, r.cls).d, r.d)]

\* A faulty variant of create_copy: copy.copy(self), the entry list is shared.
ShallowCopy(cs, bs, ls, rs, b) ==
    [books |-> Append(bs, bs[b]), lists |-> ls, recs |-> rs]

\* A faulty variant of create_copy: the records are rebuilt by __new__ alone, their
\* state is not carried over.
CopyWithoutState(cs, bs, ls, rs, b) ==
    LET src == ls[bs[b].entries]
    IN  [books |-> Append(bs, [bs[b] EXCEPT !.entries = Len(ls) + 1]),
         lists |-> Append(ls, [i \in 1..Len(src) |-> Len(rs) + i]),
         recs  |-> rs \o [i \in 1..Len(src) |-> EntryNew(cs, rs[src[i]].cls)]]

\* BookBase.create_copy: copy.deepcopy(self).  The heaps after the call; the new
\* book is the last book, with a new entry list of new records.
CreateCopy(cs, bs, ls, rs, b) ==
    LET src == ls[bs[b].entries]
        y == BookNew(cs, bs[b].cls, Len(ls) + 1)
    IN  [books |-> Append(bs, [y EXCEPT !.attributes = bs[b].attributes]),
         lists |-> Append(ls, [i \in 1..Len(src) |-> Len(rs) + i]),
         recs  |-> rs \o [i \in 1..Len(src) |-> CopyEntry(cs, rs[src[i]])]]

\* A faulty variant of add_contact: the new entry goes to the front.
AddContactFront(cs, bs, ls, rs, b, args, kwargs) ==
    LET made == EntryCreate(cs, bs[b].cls, args, kwargs)
    IN  IF made.err # "none"
        THEN [err |-> made.err, names |-> made.names, rec |-> 0, lists |-> ls, recs |-> rs]
        ELSE [err |-> "none", names |-> {}, rec |-> Len(rs) + 1,
              lists |-> [ls EXCEPT ![bs[b].entries] = <<Len(rs) + 1>> \o @],
              recs  |-> Append(rs, made.rec)]

\* A faulty variant of add_contact: the instance is appended before __init__ has
\* validated the arguments.
AddContactEarly(cs, bs, ls, rs, b, args, kwargs) ==
    LET made == EntryCreate(cs, bs[b].cls, args, kwargs)
    IN  [err |-> made.err, names |-> made.names,
         rec |-> IF made.err = "none" THEN Len(rs) + 1 ELSE 0,
         lists |-> [ls EXCEPT ![bs[b].entries] = Append(@, Len(rs) + 1)],
         recs  |-> Append(rs, made.rec)]

\* BookBase.add_contact: the entry is constructed first; append runs only when
\* construction returned
AddContact(cs, bs, ls, rs, b, args, kwargs) ==
    LET made == EntryCreate(cs, bs[b].cls, args, kwargs)
    IN  IF made.err # "none"
        THEN [err |-> made.err, names |-> made.names, rec |-> 0, lists |-> ls, recs |-> rs]
        ELSE [err |-> "none", names |-> {}, rec |-> Len(rs) + 1,
              lists |-> [ls EXCEPT ![bs[b].entries] = Append(@, Len(rs) + 1)],
              recs  |-> Append(rs, made.rec)]

\* A faulty variant of __str__: the index is written without padding.
BookStrUnpadded(cs, ls, rs, book) ==
    LET entries == ls[book.entries]
        n == Len(entries)
        ix_length == Digits(n)
    IN  IF n = 0 THEN [err |-> "none", empty |-> TRUE, blocks |-> <<>>, divider |-> 0]
        ELSE IF \E i \in 1..n : EntryStr(cs, rs[entries[i]]).err # "none"
        THEN [err |-> "UnknownAttribute", empty |-> FALSE, blocks |-> <<>>, divider |-> 0]
        ELSE [err |-> "none", empty |-> FALSE,
              blocks |-> [i \in 1..n |->
                  [index |-> i,
                   label |-> DigitsOf(i),
                   width |-> Len(DigitsOf(i)),
                   header |-> 11 + Len(DigitsOf(i)) + 4,
                   entry |-> EntryStr(cs, rs[entries[i]]).lines]],
              divider |-> 15 + ix_length]

\* BookBase.__str__: the blocks of the entries in order, then the divider.
\* A header line is "--- Entry #" (11 characters), the index padded with zeros
\* to ix_length digits (label, width characters), and " ---" (4 characters);
\* the divider is 15 + ix_length dashes.  An empty book gives the fixed text
\* "Your book has no entries yet".
BookStr(cs, ls, rs, book) ==
    LET entries == ls[book.entries]
        n == Len(entries)
        ix_length == Digits(n)
    IN  IF n = 0 THEN [err |-> "none", empty |-> TRUE, blocks |-> <<>>, divider |-> 0]
        ELSE IF \E i \in 1..n : EntryStr(cs, rs[entries[i]]).err # "none"
        THEN [err |-> "UnknownAttribute", empty |-> FALSE, blocks |-> <<>>, divider |-> 0]
        ELSE [err |-> "none", empty |-> FALSE,
              blocks |-> [i \in 1..n |->
                  [index |-> i,
                   label |-> ZeroPad(i, ix_length),
                   width |-> Len(ZeroPad(i, ix_length)),
                   header |-> 11 + Len(ZeroPad(i, ix_length)) + 4,
                   entry |-> EntryStr(cs, rs[entries[i]]).lines]],
              divider |-> 15 + ix_length]

-----------------------------------------------------------------------------
(* Inputs of the calls *)

\* a name outside every schema of MainClasses
OutsideName == "nick"

InputNames(schema) == Elems(schema) \cup {OutsideName}

ArgsUpTo(n) == UNION {[1..k -> Values] : k \in 0..n}

KwargsOver(names) == UNION {[S -> Values] : S \in SUBSET names}

\* keyword criteria in the order they were written: no name twice
CriteriaOver(names) ==
    {c \in UNION {[1..k -> names \X Values] : k \in 0..MaxCriteria} :
        \A i, j \in DOMAIN c : i # j => c[i][1] # c[j][1]}

\* the entry types a book is bound to: PhoneEntry (class 2 of MainClasses), as PhoneBook is
BookTypes == {2}

-----------------------------------------------------------------------------
(* The collection: one book of MainClasses.py, then calls on the books and *)
(* on their records.  The caller is sequential (one thread, synchronous    *)
(* calls): a call runs as one step and leaves its outcome in result; the   *)
(* caller takes the outcome before it makes the next call.                 *)

Idle == [op |-> "idle"]

Init ==
    /\ classes = MainClasses
    /\ \E c \in BookTypes : books = <<BookNew(MainClasses, c, 1)>>
    /\ lists = << <<>> >>
    /\ recs = <<>>
    /\ result = Idle
    /\ dels = 0

\* book.add_contact with args and kwargs
Add(b) ==
  /\ result = Idle
  /\
    \E args \in ArgsUpTo(Len(books[b].attributes) + 1),
       kwargs \in KwargsOver(InputNames(books[b].attributes)) :
      /\ Len(args) + Cardinality(DOMAIN kwargs) <= Len(books[b].attributes) + 1
      /\ \E out \in {AddContact(classes, books, lists, recs, b, args, kwargs)} :
            /\ out.err # "none" \/ Len(recs) < MaxRecs
            /\ lists' = out.lists
            /\ recs' = out.recs
            /\ result' = IF out.err = "none"
                         THEN [op |-> "add", book |-> b, nargs |-> Len(args),
                               kwnames |-> DOMAIN kwargs, err |-> out.err,
                               names |-> out.names, rec |-> out.rec,
                               args |-> args, kwargs |-> kwargs]
                         ELSE [op |-> "add", book |-> b, nargs |-> Len(args),
                               kwnames |-> DOMAIN kwargs, err |-> out.err,
                               names |-> out.names, rec |-> out.rec]
            /\ UNCHANGED <<classes, books, dels>>

\* entry.<name> = value on a stored record
SetAttr(r) ==
  /\ result = Idle
  /\
    \E name \in InputNames(Attributes(classes, recs[r])) \cup {"_can_set_any_attr"},
       value \in Values :
      \E out \in {EntrySetAttr(classes, recs[r], name, value)} :
            /\ recs' = [recs EXCEPT ![r] = out.rec]
            /\ result' = [op |-> "setattr", rec |-> r, name |-> name,
                          value |-> value, err |-> out.err]
            /\ UNCHANGED <<classes, books, lists, dels>>

\* book.find with keyword criteria
Find(b) ==
  /\ result = Idle
  /\
    \E criteria \in CriteriaOver(InputNames(books[b].attributes)) :
      \E out \in {BookFind(classes, lists, recs, books[b], criteria)} :
            /\ result' = [op |-> "find", book |-> b, criteria |-> criteria,
                          err |-> out.err, matches |-> out.matches]
            /\ UNCHANGED <<classes, books, lists, recs, dels>>

\* book[key]
GetItem(b) ==
  /\ result = Idle
  /\
    \E key \in (-(Len(lists[books[b].entries]) + 1))..(Len(lists[books[b].entries]) + 1) :
      \E out \in {BookGetItem(lists, books[b], key)} :
            /\ result' = [op |-> "getitem", book |-> b, key |-> key,
                          err |-> out.err, rec |-> out.rec]
            /\ UNCHANGED <<classes, books, lists, recs, dels>>

\* str(book), print_book
Str(b) ==
  /\ result = Idle
  /\
    /\ result' = [op |-> "str", book |-> b,
                  out |-> BookStr(classes, lists, recs, books[b])]
    /\ UNCHANGED <<classes, books, lists, recs, dels>>

\* book.create_copy()
Copy(b) ==
  /\ result = Idle
  /\
    \E out \in {CreateCopy(classes, books, lists, recs, b)} :
        /\ Len(books) < MaxBooks
        /\ Len(recs) + Len(lists[books[b].entries]) <= MaxRecs
        /\ books' = out.books
        /\ lists' = out.lists
        /\ recs' = out.recs
        /\ result' = [op |-> "copy", book |-> b, new |-> Len(books) + 1]
        /\ UNCHANGED <<classes, dels>>

\* the caller has taken the outcome of the last call
Return ==
    /\ result # Idle
    /\ result' = Idle
    /\ UNCHANGED <<classes, books, lists, recs, dels>>

Next ==
    \/ \E b \in DOMAIN books : Add(b)
    \/ \E r \in DOMAIN recs : SetAttr(r)
    \/ \E b \in DOMAIN books : Find(b)
    \/ \E b \in DOMAIN books : GetItem(b)
    \/ \E b \in DOMAIN books : Str(b)
    \/ \E b \in DOMAIN books : Copy(b)
    \/ Return

Spec == Init /\ [][Next]_vars

-----------------------------------------------------------------------------
(* Records under attribute deletion: the calls on stored records, with     *)
(* del entry.<name> among them.                                            *)

\* del entry.<name> on a stored record
DelAttr(r) ==
  /\ result = Idle
  /\
    \E name \in InputNames(Attributes(classes, recs[r])) \cup {"_can_set_any_attr"} :
      \E out \in {EntryDelAttr(recs[r], name)} :
            /\ dels < MaxDels
            /\ recs' = [recs EXCEPT ![r] = out.rec]
            /\ dels' = IF out.err = "none" THEN dels + 1 ELSE dels
            /\ result' = [op |-> "delattr", rec |-> r, name |-> name, err |-> out.err]
            /\ UNCHANGED <<classes, books, lists>>

NextDel ==
    \/ \E b \in DOMAIN books : Add(b)
    \/ \E r \in DOMAIN recs : SetAttr(r)
    \/ \E r \in DOMAIN recs : DelAttr(r)
    \/ Return

SpecDel == Init /\ [][NextDel]_vars

-----------------------------------------------------------------------------
(* Construction alone: records of the classes of MainClasses.py are built  *)
(* directly, by calling the class, and kept by nobody.                     *)

InitCtor ==
    /\ classes = MainClasses
    /\ books = <<>>
    /\ lists = <<>>
    /\ recs = <<>>
    /\ result = Idle
    /\ dels = 0

\* calling class c with args and kwargs
Construct(c) ==
  /\ result = Idle
  /\
    \E args \in ArgsUpTo(Len(GetAllAttributes(classes, c)) + 1),
       kwargs \in KwargsOver(InputNames(GetAllAttributes(classes, c))) :
      /\ Len(args) + Cardinality(DOMAIN kwargs) <= Len(GetAllAttributes(classes, c)) + 2
      /\ \E made \in {EntryCreate(classes, c, args, kwargs)} :
            /\ result' = [op |-> "construct", cls |-> c, nargs |-> Len(args),
                          kwnames |-> DOMAIN kwargs, args |-> args, kwargs |-> kwargs,
                          err |-> made.err, names |-> made.names, made |-> made.rec]
            /\ UNCHANGED <<classes, books, lists, recs, dels>>

NextCtor ==
    \/ \E c \in DOMAIN classes : Construct(c)
    \/ Return

SpecCtor == InitCtor /\ [][NextCtor]_vars

-----------------------------------------------------------------------------
(* Schema composition alone: a chain of classes is drawn, and the schema   *)
(* of each of its classes is computed.                                     *)

\* the attribute tuples a class body may declare
DeclMenu == { <<"name", "phone">>, <<"email">>, <<"age">>, <<"name">>, <<>> }

Levels ==
    {[name |-> "Entry", declares |-> TRUE, attributes |-> a] : a \in DeclMenu}
        \cup {[name |-> "Entry", declares |-> FALSE, attributes |-> <<>>]}

Chains == UNION {{<<EntryBaseClass>> \o t : t \in [1..n -> Levels]} : n \in 1..MaxLevels}

InitSchema ==
    /\ classes \in Chains
    /\ books = <<>>
    /\ lists = <<>>
    /\ recs = <<>>
    /\ result = Idle
    /\ dels = 0

\* cls._get_all_attributes()
Compose(c) ==
  /\ result = Idle
  /\
    /\ result' = [op |-> "schema", cls |-> c, schema |-> GetAllAttributes(classes, c)]
    /\ UNCHANGED <<classes, books, lists, recs, dels>>

NextSchema ==
    \/ \E c \in DOMAIN classes : Compose(c)
    \/ Return

SpecSchema == InitSchema /\ [][NextSchema]_vars

-----------------------------------------------------------------------------
(* Display alone: a book is filled, one record after the other, and shown  *)
(* at every length up to MaxShown.                                         *)

\* book.add_contact(v, v)
AddPair(b) ==
  /\ result = Idle
  /\ Len(recs) < MaxShown
  /\
    \E v \in Values :
      \E out \in {AddContact(classes, books, lists, recs, b, <<v, v>>, EmptyDict)} :
            /\ lists' = out.lists
            /\ recs' = out.recs
            /\ result' = [op |-> "add", book |-> b, nargs |-> 2, kwnames |-> {},
                          err |-> out.err, names |-> out.names, rec |-> out.rec,
                          args |-> <<v, v>>, kwargs |-> EmptyDict]
            /\ UNCHANGED <<classes, books, dels>>

NextDisplay ==
    \/ \E b \in DOMAIN books : AddPair(b)
    \/ \E b \in DOMAIN books : Str(b)
    \/ Return

SpecDisplay == Init /\ [][NextDisplay]_vars

-----------------------------------------------------------------------------
(* Properties *)

\* the identities and the values of the records of book b, in order
BookIds(b) == lists[books[b].entries]

BookRecords(b) == [i \in DOMAIN BookIds(b) |-> recs[BookIds(b)[i]]]

IsPrefix(s, t) == Len(s) <= Len(t) /\ \A i \in DOMAIN s : s[i] = t[i]

ConstructionErrors ==
    {"TooManyArguments", "DuplicateArgument", "MissingAttributes", "UnexpectedAttributes"}

\* the schema of class c of MainClasses.py, written out
MainSchema(c) ==
    SubSeq(<<"name", "phone", "email", "age">>, 1, IF c = 1 THEN 0 ELSE c)

\* C1: construction for schema S with k positional values and keyword names K
\* succeeds exactly when the first k names of S exist (k <= Len(S)), are
\* disjoint from K and, together with K, are the names of S; otherwise it fails
\* with one of the four construction errors, and the error raised names a
\* violation that is there.
C1_ExactArgumentSet ==
    result.op \in {"construct", "add"} =>
        LET S == MainSchema(IF result.op = "add" THEN books[result.book].cls ELSE result.cls)
            k == result.nargs
            K == result.kwnames
            P == {S[i] : i \in 1..Min(k, Len(S))}
            bound == k <= Len(S) /\ P \cap K = {} /\ P \cup K = Elems(S)
        IN  /\ (result.err = "none") <=> bound
            /\ result.err # "none" => result.err \in ConstructionErrors
            /\ result.err = "TooManyArguments" => k > Len(S)
            /\ result.err = "DuplicateArgument" => P \cap K # {}
            /\ result.err = "MissingAttributes" => Elems(S) \ (P \cup K) # {}
            /\ result.err = "UnexpectedAttributes" => (P \cup K) \ Elems(S) # {}

\* a record of schema (name, phone, email) was built from one positional and
\* two keyword values
C1_Witness ==
    /\ result.op = "construct" /\ result.err = "none" /\ result.cls = 3
    /\ result.nargs = 1 /\ result.kwnames = {"phone", "email"}

\* C2: an add whose construction fails hands the construction error to the
\* caller and leaves every book, entry list and record as it was.
C2_AddAtomic ==
    [][ result'.op = "add" =>
          \A args \in [1..result'.nargs -> Values], kwargs \in [result'.kwnames -> Values] :
            \A made \in {EntryCreate(classes, books[result'.book].cls, args, kwargs)} :
                made.err # "none" =>
                  /\ result'.err = made.err
                  /\ UNCHANGED <<books, lists, recs>> ]_vars

\* a failed add on a book that holds a record
C2_Witness ==
    /\ result.op = "add" /\ result.err = "MissingAttributes"
    /\ Len(BookIds(result.book)) >= 1

\* C3: every constructed record is locked in every state, and an assignment to
\* a name outside the schema of its type fails with ForbiddenAttributeSet.
C3_LockInvariant ==
    /\ \A r \in DOMAIN recs : ~CanSetAnyAttr(recs[r])
    /\ (result.op = "setattr"
          /\ result.name \notin Elems(GetAllAttributes(classes, recs[result.rec].cls)))
        => result.err = "ForbiddenAttributeSet"

\* C4: an add on one book, or an assignment on a record of one book, leaves
\* the record sequence and all record values of every other book unchanged.
C4_CopyIsolation ==
    [][ \A b1, b2 \in DOMAIN books :
          ( /\ b1 # b2
            /\ \/ result'.op = "add" /\ result'.book = b1
               \/ result'.op = "setattr" /\ result'.rec \in Elems(BookIds(b1)) )
          => /\ BookIds(b2)' = BookIds(b2)
             /\ BookRecords(b2)' = BookRecords(b2) ]_vars

\* after a copy, an assignment went through and the two books differ by value
C4_Witness ==
    /\ result.op = "setattr" /\ result.err = "none"
    /\ Len(books) = 2
    /\ Len(BookIds(1)) = 1 /\ Len(BookIds(2)) = 1
    /\ BookRecords(1) # BookRecords(2)

\* C5: right after a copy the new book equals its source by value: same entry
\* type and schema, same number of records, and at every position every
\* schema attribute reads the same value in both.
C5_CopyEqualByValue ==
    result.op = "copy" =>
        LET src == books[result.book]
            new == books[result.new]
        IN  /\ new.cls = src.cls
            /\ new.attributes = src.attributes
            /\ Len(BookIds(result.new)) = Len(BookIds(result.book))
            /\ \A i \in DOMAIN BookIds(result.book) :
                 /\ BookRecords(result.new)[i].cls = BookRecords(result.book)[i].cls
                 /\ \A a \in Elems(src.attributes) :
                      /\ EntryGetItem(classes, BookRecords(result.new)[i], a).err = "none"
                      /\ EntryGetItem(classes, BookRecords(result.new)[i], a)
                           = EntryGetItem(classes, BookRecords(result.book)[i], a)

\* a book holding a record was copied
C5_Witness ==
    /\ result.op = "copy"
    /\ Len(BookIds(result.book)) >= 1
    /\ BookRecords(result.book)[1].d["name"] # BookRecords(result.book)[1].d["phone"]

\* C6: find with criteria named in the schema returns, without error, the
\* stored records that satisfy every criterion, in insertion order.
C6_FindConjunction ==
    ( /\ result.op = "find"
      /\ \A i \in DOMAIN result.criteria :
            result.criteria[i][1] \in Elems(books[result.book].attributes) )
    => /\ result.err = "none"
       /\ result.matches =
            SelectSeq(BookIds(result.book),
                      LAMBDA id : \A i \in DOMAIN result.criteria :
                          recs[id].d[result.criteria[i][1]] = result.criteria[i][2])

\* two criteria pick the second of two records
C6_Witness ==
    /\ result.op = "find" /\ Len(result.criteria) = 2
    /\ Len(BookIds(result.book)) = 2
    /\ result.matches = <<BookIds(result.book)[2]>>

\* C7: a find that names a criterion outside the schema fails with
\* UnknownAttribute, whatever the book holds.
C7_UnknownCriterionFails ==
    ( /\ result.op = "find"
      /\ \E i \in DOMAIN result.criteria :
            result.criteria[i][1] \notin Elems(books[result.book].attributes) )
    => result.err = "UnknownAttribute"

\* C8 as first stated: a position in 0..n-1 returns the record at that position,
\* every other position fails with IndexOutOfRange.
C8_OnlyNonNegative ==
    result.op = "getitem" =>
        LET ids == BookIds(result.book)
            p == result.key
        IN  IF 0 <= p /\ p < Len(ids)
            THEN result.err = "none" /\ result.rec = ids[p + 1]
            ELSE result.err = "IndexOutOfRange"

\* C8: a position in 0..n-1 returns the record at that position, a position in
\* -n..-1 the record at position n + p, and every other position fails with
\* IndexOutOfRange.
C8_PositionalAccess ==
    result.op = "getitem" =>
        LET ids == BookIds(result.book)
            n == Len(ids)
            p == result.key
        IN  /\ (0 <= p /\ p < n) => result.err = "none" /\ result.rec = ids[p + 1]
            /\ (-n <= p /\ p < 0) => result.err = "none" /\ result.rec = ids[n + p + 1]
            /\ (p >= n \/ p < -n) => result.err = "IndexOutOfRange"

\* position -1 of a book of two records
C8_Witness ==
    /\ result.op = "getitem" /\ result.key = -1 /\ result.err = "none"
    /\ Len(BookIds(result.book)) = 2

\* C9: books start empty; in every step each entry list keeps its records in
\* place, and a list changes only by a successful add, which puts exactly the
\* new record at its end; no book is rebound to another list.
C9_AppendOnly ==
    /\ \A b \in DOMAIN books : BookIds(b) = <<>>
    /\ [][ /\ \A b \in DOMAIN books : books'[b] = books[b]
           /\ \A l \in DOMAIN lists :
                /\ IsPrefix(lists[l], lists'[l])
                /\ lists'[l] # lists[l] =>
                     /\ result'.op = "add" /\ result'.err = "none"
                     /\ books[result'.book].entries = l
                     /\ lists'[l] = Append(lists[l], result'.rec)
                     /\ result'.rec \notin DOMAIN recs ]_vars

\* a second record was added behind the first
C9_Witness ==
    /\ result.op = "add" /\ result.err = "none"
    /\ Len(BookIds(result.book)) = 2
    /\ BookIds(result.book)[2] = result.rec

\* the concatenation of the declared tuples of classes 1..c, most general first
RECURSIVE ConcatDeclared(_, _)
ConcatDeclared(cs, c) ==
    IF c = 0 THEN <<>> ELSE ConcatDeclared(cs, c - 1) \o cs[c].attributes

\* C10: when every class of the chain up to the concrete one declares its own
\* attribute tuple, the schema is the concatenation of those tuples from the
\* most general class down to the concrete one.
C10_CompositionOrder ==
    ( /\ result.op = "schema"
      /\ \A k \in 1..result.cls : classes[k].declares )
    => result.schema = ConcatDeclared(classes, result.cls)

\* the three-level chain (name, phone), (email), (age)
C10_Witness ==
    /\ result.op = "schema" /\ result.cls = 4
    /\ \A k \in 1..4 : classes[k].declares
    /\ classes[2].attributes = <<"name", "phone">>
    /\ classes[3].attributes = <<"email">>
    /\ classes[4].attributes = <<"age">>
    /\ result.schema = <<"name", "phone", "email", "age">>

\* the concatenation of the tuples of those of classes 1..c whose body declares
\* one, most general first, each tuple once
RECURSIVE ConcatDeclaring(_, _)
ConcatDeclaring(cs, c) ==
    IF c = 0 THEN <<>>
    ELSE ConcatDeclaring(cs, c - 1) \o (IF cs[c].declares THEN cs[c].attributes ELSE <<>>)

\* C11: a class of the chain that declares no attribute tuple of its own
\* contributes nothing: the schema is the concatenation of the tuples of the
\* declaring classes only, each tuple once.
C11_OnlyDeclaringLevels ==
    result.op = "schema" => result.schema = ConcatDeclaring(classes, result.cls)

\* C12: once a record is constructed, no step changes the set of attribute
\* names that exist on it: no name is added and no name disappears.
C12_NameSetFrozen ==
    [][ \A r \in DOMAIN recs : DOMAIN recs'[r].d = DOMAIN recs[r].d ]_vars

\* the names a record holds besides its bookkeeping (the schema tuple and the
\* lock flag that __new__ puts on every instance)
DataNames(r) == (DOMAIN r.d) \ {"attributes", "_can_set_any_attr"}

\* C13: in every reachable state every record stored in a book is of the
\* book's entry type and carries a value for exactly the names of that type's
\* schema: none missing, none extra.
C13_RecordsSatisfySchema ==
    \A b \in DOMAIN books : \A i \in DOMAIN BookIds(b) :
        LET r == BookRecords(b)[i]
            S == MainSchema(books[b].cls)
        IN  /\ r.cls = books[b].cls
            /\ Attributes(classes, r) = S
            /\ DataNames(r) = Elems(S)
            /\ \A a \in Elems(S) :
                 /\ EntryGetItem(classes, r, a).err = "none"
                 /\ EntryGetItem(classes, r, a).value \in Values

\* an assignment went through on a record of a copied book, and a rejected one
\* is just as possible there
C13_Witness ==
    /\ result.op = "setattr" /\ result.err = "none"
    /\ Len(books) = 2
    /\ result.rec \in Elems(BookIds(2))
    /\ recs[result.rec].d[result.name] = result.value
    /\ BookRecords(2) # BookRecords(1)

\* C14: when construction with k positional values and some keyword values
\* returns, the i-th positional value is the value of the i-th schema
\* attribute, every keyword value is the value of the attribute it names,
\* every schema attribute has a value, and the record is locked.
C14_BindingOnSuccess ==
    (result.op = "construct" /\ result.err = "none") =>
        LET S == MainSchema(result.cls)
            r == result.made
        IN  /\ \A i \in 1..result.nargs : i <= Len(S) /\ r.d[S[i]] = result.args[i]
            /\ \A n \in result.kwnames : n \in DOMAIN r.d /\ r.d[n] = result.kwargs[n]
            /\ \A a \in Elems(S) :
                 /\ a \in DOMAIN r.d
                 /\ EntryGetItem(classes, r, a).err = "none"
            /\ ~CanSetAnyAttr(r)
            /\ EntrySetAttr(classes, r, OutsideName, 0).err = "ForbiddenAttributeSet"

\* a record of schema (name, phone, email) built from two different positional
\* values and one keyword value
C14_Witness ==
    /\ result.op = "construct" /\ result.err = "none" /\ result.cls = 3
    /\ result.nargs = 2 /\ result.kwnames = {"email"}
    /\ result.args[1] # result.args[2]
    /\ result.kwargs["email"] # result.args[2]

\* C15 as first stated: every construction call that supplies a name outside
\* the schema fails with UnexpectedAttributes, listing exactly those names.
C15_AlwaysUnexpected ==
    (result.op = "construct" /\ result.kwnames \ Elems(MainSchema(result.cls)) # {})
    => /\ result.err = "UnexpectedAttributes"
       /\ result.names = result.kwnames \ Elems(MainSchema(result.cls))

\* C15: a construction call that supplies a name outside the schema always
\* fails.  It fails with UnexpectedAttributes, listing exactly the supplied
\* names outside the schema, exactly when the checks that run before find
\* nothing: no more positional values than schema names, no keyword name
\* bound positionally, no schema name left unbound.  Otherwise the error is
\* that of the first of these checks that fails.
C15_UnexpectedAfterOtherChecks ==
    (result.op = "construct" /\ result.kwnames \ Elems(MainSchema(result.cls)) # {})
    => LET S == MainSchema(result.cls)
           k == result.nargs
           K == result.kwnames
           P == {S[i] : i \in 1..Min(k, Len(S))}
       IN  /\ result.err # "none"
           /\ result.err =
                IF k > Len(S) THEN "TooManyArguments"
                ELSE IF P \cap K # {} THEN "DuplicateArgument"
                ELSE IF Elems(S) \ (P \cup K) # {} THEN "MissingAttributes"
                ELSE "UnexpectedAttributes"
           /\ result.err = "UnexpectedAttributes" => result.names = K \ Elems(S)

\* (name, phone) built from one positional value, phone and an outside name
C15_Witness ==
    /\ result.op = "construct" /\ result.cls = 2
    /\ result.nargs = 1 /\ result.kwnames = {"phone", OutsideName}
    /\ result.err = "UnexpectedAttributes" /\ result.names = {OutsideName}

\* the schema names that the positional values of the last call are bound to
PositionalNames ==
    LET S == MainSchema(result.cls)
    IN  {S[i] : i \in 1..Min(result.nargs, Len(S))}

\* C16 as first stated: every construction call in which a keyword name is
\* also bound positionally fails with DuplicateArgument, naming exactly the
\* colliding names.
C16_AlwaysDuplicate ==
    (result.op = "construct" /\ PositionalNames \cap result.kwnames # {})
    => /\ result.err = "DuplicateArgument"
       /\ result.names = PositionalNames \cap result.kwnames

\* C16: a construction call in which a keyword name is also bound positionally
\* always fails: with TooManyArguments when there are more positional values
\* than schema names, and otherwise with DuplicateArgument naming exactly the
\* colliding names.
C16_DuplicateAfterCount ==
    (result.op = "construct" /\ PositionalNames \cap result.kwnames # {})
    => IF result.nargs > Len(MainSchema(result.cls))
       THEN result.err = "TooManyArguments"
       ELSE /\ result.err = "DuplicateArgument"
            /\ result.names = PositionalNames \cap result.kwnames

\* (name, phone) called with two positional values and phone again by keyword
C16_Witness ==
    /\ result.op = "construct" /\ result.cls = 2
    /\ result.nargs = 2 /\ result.kwnames = {"phone"}
    /\ result.err = "DuplicateArgument" /\ result.names = {"phone"}

\* the number of decimal digits of n >= 1, by its defining inequality
DigitCount(n) == CHOOSE d \in 1..4 : 10^(d - 1) <= n /\ n < 10^d

\* the number a sequence of decimal digits writes
RECURSIVE DigitsValue(_)
DigitsValue(ds) ==
    IF ds = <<>> THEN 0 ELSE 10 * DigitsValue(SubSeq(ds, 1, Len(ds) - 1)) + ds[Len(ds)]

\* C17: the display of an empty book is the no-entries text; the display of a
\* book of n >= 1 records shows the records in insertion order, the i-th under
\* a header that carries i written with exactly as many digits as n has, zeros
\* in front, and ends with a divider of 15 plus that many characters, which is
\* the length of a header line.
C17_DisplayFormat ==
    result.op = "str" =>
        LET ids == BookIds(result.book)
            n == Len(ids)
            out == result.out
        IN  IF n = 0
            THEN out.err = "none" /\ out.empty /\ out.blocks = <<>>
            ELSE /\ out.err = "none" /\ ~out.empty
                 /\ Len(out.blocks) = n
                 /\ \A i \in 1..n :
                      /\ Len(out.blocks[i].label) = DigitCount(n)
                      /\ \A k \in DOMAIN out.blocks[i].label : out.blocks[i].label[k] \in 0..9
                      /\ DigitsValue(out.blocks[i].label) = i
                      /\ out.blocks[i].entry =
                            [j \in DOMAIN MainSchema(books[result.book].cls) |->
                                [attr |-> MainSchema(books[result.book].cls)[j],
                                 value |-> recs[ids[i]].d[MainSchema(books[result.book].cls)[j]]]]
                      /\ out.blocks[i].header = out.divider
                 /\ out.divider = 15 + DigitCount(n)

\* a book of ten records is shown: the first header carries 01
C17_Witness ==
    /\ result.op = "str"
    /\ Len(BookIds(result.book)) = 10
    /\ result.out.blocks[1].label = <<0, 1>>
    /\ result.out.blocks[10].label = <<1, 0>>
    /\ result.out.divider = 17
    /\ result.out.blocks[1].entry # result.out.blocks[2].entry

\* C18: an assignment of v to a schema attribute a of a stored (locked) record
\* succeeds; after it, indexed lookup of a gives v, every other schema
\* attribute reads as before, and indexed lookup of a name outside the schema
\* fails with UnknownAttribute.
C18_OverwriteRoundTrip ==
    [][ ( /\ result'.op = "setattr"
          /\ result'.name \in Elems(MainSchema(recs[result'.rec].cls)) )
        => LET old == recs[result'.rec]
               new == recs'[result'.rec]
           IN  /\ ~CanSetAnyAttr(old)
               /\ result'.err = "none"
               /\ EntryGetItem(classes, new, result'.name)
                    = [err |-> "none", value |-> result'.value]
               /\ \A a \in Elems(MainSchema(old.cls)) \ {result'.name} :
                    /\ EntryGetItem(classes, new, a).err = "none"
                    /\ EntryGetItem(classes, new, a) = EntryGetItem(classes, old, a)
               /\ \A n \in {OutsideName, "attributes", "_can_set_any_attr"} :
                    EntryGetItem(classes, new, n).err = "UnknownAttribute" ]_vars

\* phone was overwritten with a value that differs from the record's name
C18_Witness ==
    /\ result.op = "setattr" /\ result.err = "none"
    /\ result.name = "phone" /\ result.value = 1
    /\ EntryGetItem(classes, recs[result.rec], "phone").value = 1
    /\ EntryGetItem(classes, recs[result.rec], "name").value = 0

\* the books that create_copy returned: every book but the first
Copies == (DOMAIN books) \ {1}

\* C19: every record of a book returned by create_copy is locked: an
\* assignment to a name outside the schema fails with ForbiddenAttributeSet
\* and leaves the record as it was, an assignment to a schema name succeeds.
C19_CopiesAreLocked ==
    \A b \in Copies : \A id \in Elems(BookIds(b)) :
        /\ ~CanSetAnyAttr(recs[id])
        /\ \A v \in Values :
             /\ EntrySetAttr(classes, recs[id], OutsideName, v)
                  = [err |-> "ForbiddenAttributeSet", rec |-> recs[id]]
             /\ \A a \in Elems(MainSchema(books[b].cls)) :
                  EntrySetAttr(classes, recs[id], a, v).err = "none"
        /\ (result.op = "setattr" /\ result.rec = id) =>
             result.err = IF result.name \in Elems(MainSchema(books[b].cls))
                          THEN "none" ELSE "ForbiddenAttributeSet"

\* an assignment to a name outside the schema was refused on a record of a copy
C19_Witness ==
    /\ result.op = "setattr" /\ result.name = OutsideName
    /\ result.err = "ForbiddenAttributeSet"
    /\ \E b \in Copies : result.rec \in Elems(BookIds(b))
    /\ OutsideName \notin DOMAIN recs[result.rec].d

\* the position of name a in schema S
SchemaIndex(S, a) == CHOOSE k \in DOMAIN S : S[k] = a

\* C20: find and positional access hand out the stored records themselves:
\* they create no record and return identities of the book's entry list.  So
\* an assignment of v to schema attribute a of a stored record r is what every
\* later positional access, find and display of its book sees, and when v
\* differs from the old value, a find for the old value that returned r before
\* the assignment no longer returns it.
C20_StoredRecordsAreShared ==
    [][ /\ result'.op = "find" =>
              /\ recs' = recs
              /\ Elems(result'.matches) \subseteq Elems(BookIds(result'.book))
        /\ (result'.op = "getitem" /\ result'.err = "none") =>
              /\ recs' = recs
              /\ result'.rec \in Elems(BookIds(result'.book))
        /\ ( /\ result'.op = "setattr" /\ result'.err = "none"
             /\ result'.name \in Elems(MainSchema(recs[result'.rec].cls)) ) =>
              \A b \in DOMAIN books : \A p \in DOMAIN BookIds(b) :
                BookIds(b)[p] = result'.rec =>
                  LET r == result'.rec
                      a == result'.name
                      v == result'.value
                      w == recs[r].d[a]
                      got == BookGetItem(lists', books'[b], p - 1)
                      shown == BookStr(classes', lists', recs', books'[b])
                  IN  /\ got = [err |-> "none", rec |-> r]
                      /\ EntryGetItem(classes', recs'[got.rec], a)
                           = [err |-> "none", value |-> v]
                      /\ r \in Elems(BookFind(classes', lists', recs', books'[b],
                                              << <<a, v>> >>).matches)
                      /\ shown.err = "none"
                      /\ shown.blocks[p].entry[SchemaIndex(MainSchema(recs[r].cls), a)]
                           = [attr |-> a, value |-> v]
                      /\ w # v =>
                           /\ r \in Elems(BookFind(classes, lists, recs, books[b],
                                                   << <<a, w>> >>).matches)
                           /\ r \notin Elems(BookFind(classes', lists', recs', books'[b],
                                                      << <<a, v>>, <<a, w>> >>).matches)
                           /\ r \notin Elems(BookFind(classes', lists', recs', books'[b],
                                                      << <<a, w>> >>).matches) ]_vars

\* the second of two records was assigned a name that only it carries: a find
\* for that name now returns exactly this record
C20_Witness ==
    /\ result.op = "setattr" /\ result.err = "none" /\ result.name = "name"
    /\ Len(BookIds(1)) = 2 /\ BookIds(1)[2] = result.rec
    /\ BookFind(classes, lists, recs, books[1], << <<"name", result.value>> >>).matches
         = <<result.rec>>
    /\ BookGetItem(lists, books[1], 1).rec = result.rec

=============================================================================
